---- MODULE Spec2Model ----
(***************************************************************************)
(* PharmaVault EDMS backend (src/backend/server.py): the datastore         *)
(* collections users, documents and audit_logs, and the request handlers   *)
(* that read and write them.  In Spec every request is handled from start  *)
(* to end as one step (requests handled one at a time).                    *)
(*                                                                         *)
(* Identifiers produced by uuid4 are modelled as 1, 2, ... in insertion    *)
(* order.  Fields no handler branches on (title, description, file name,   *)
(* timestamps, tags, metadata, comments, user_name) are left out of the    *)
(* records.                                                                *)
(***************************************************************************)
EXTENDS Integers, Sequences, FiniteSets, TLC

\* ------------------------------------------------------------------ bounds
MaxUsers == 1
MaxDocs == 1
MaxSigs == 2
MaxAudit == 6
MaxLogins == 1
MaxReads == 1
MaxAuditFaulty == 4
MaxAuditFailures == 1
MaxRequests == 2
MaxAuthUsers == 2

\* ------------------------------------------------------------------ inputs
Emails == {"a@x", "b@x"}
\* Addresses for the account claims: two that differ only in the case of the local part
\* (EmailStr keeps the local part as typed), and a third.
AuthEmails == {"a@x", "A@x", "b@x"}
Passwords == {"pw1", "pw2"}
Salts == {"s1"}
Roles == {"Admin", "QualityManager", "User"}
DocTypes == {"CTD", "eCTD", "SOP", "Protocol", "ClinicalReport", "Manufacturing", "Regulatory", "Other"}
\* The static table of sub-categories by document type (only the document-types route reads it).
DOCUMENT_CATEGORIES ==
    [CTD |-> {"Module 1", "Module 2", "Module 3", "Module 4", "Module 5"},
     eCTD |-> {"Administrative", "Summaries", "Quality", "Nonclinical", "Clinical"},
     SOP |-> {"Quality Control", "Manufacturing", "Regulatory", "Clinical", "General"},
     Protocol |-> {"Clinical Trial", "Validation", "Cleaning", "Analytical"},
     ClinicalReport |-> {"Study Report", "Safety Report", "Efficacy Report", "Statistical Report"},
     Manufacturing |-> {"Batch Records", "Specifications", "Validation", "Change Control"},
     Regulatory |-> {"Submissions", "Correspondence", "Approvals", "Inspections"}]
\* One type of each workflow template: three steps, two steps, none.
TemplateTypes == {"CTD", "Protocol", "ClinicalReport"}
\* Form values of category: two that DOCUMENT_CATEGORIES lists (for CTD, for Protocol), one it does not.
SomeCategories == {"Module 1", "Clinical Trial", "Unlisted"}
OneCategory == {"Module 1"}
StepIndexes == -1 .. 3
\* For the requests handled call by call: a two-step type and a type without steps, and the
\* step indexes of two steps and one past them.
RaceTypes == {"Protocol", "ClinicalReport"}
RaceStepIndexes == 0 .. 2
RaceEmails == {"a@x"}
Reasons == {"r1"}
Queries == {"quality"}
DocIdInputs == 1 .. (MaxDocs + 1)
Slots == 1 .. MaxRequests
UPLOAD_LIMIT == 52428800
FileSizes == {UPLOAD_LIMIT, UPLOAD_LIMIT + 1}
BadToken == [user_id |-> 0, email |-> "none", role |-> "none"]
NoUser == [id |-> 0, email |-> "none", role |-> "none", password |-> <<"none", "none">>, is_active |-> FALSE]
NoDoc == [id |-> 0, document_type |-> "none", category |-> "none", status |-> "none", uploaded_by |-> 0, approval_workflow |-> <<>>, signatures |-> <<>>]

\* A slot that holds no request.  A request in a slot has its handler (op), the call it is
\* at (pc), its response (status, once pc is "done"), the authenticated actor (user_id, role),
\* the document id, step index, email or reason, and password it carries (doc, arg, text,
\* password), the User object it has built (user) and the list it has read from the
\* document (read).
Idle == [op |-> "none", pc |-> "idle", status |-> "none", user_id |-> 0, role |-> "none", doc |-> 0,
         arg |-> 0, text |-> "none", password |-> "none", user |-> NoUser, read |-> <<>>]

\* users, documents, audit_logs: the datastore's collections, in insertion order.
\* issued: the tokens login has handed out.  last: the latest request and its response.
\* audit_failures: how many inserts into audit_logs have raised so far.
\* inflight: the requests that are handled step by step (one datastore call per step), by slot.
VARIABLES users, documents, audit_logs, issued, last, audit_failures, inflight

vars == <<users, documents, audit_logs, issued, last, audit_failures, inflight>>

\* ------------------------------------------------------------ pure helpers
\* bcrypt: a salted one-way hash; the salt is kept in the hash string.
hash_password(password, salt) == <<salt, password>>

\* Mutant of verify_password: the hash's salt is checked, the password is not.
verify_password_salt_only(password, hashed) == hashed[1] \in Salts

verify_password(password, hashed) == hashed = hash_password(password, hashed[1])

create_jwt_token(user) == [user_id |-> user.id, email |-> user.email, role |-> user.role]

LowerCase(email) == IF email = "A@x" THEN "a@x" ELSE email

\* Mutant of FindUserByEmail: the match ignores case.
FindUserByEmail_nocase(email) ==
    LET hits == {i \in 1 .. Len(users) : LowerCase(users[i].email) = LowerCase(email)}
    IN IF hits = {} THEN NoUser ELSE users[CHOOSE i \in hits : \A j \in hits : i <= j]

\* find_one: the first record of the collection that matches, or none.
FindUserByEmail(email) ==
    LET hits == {i \in 1 .. Len(users) : users[i].email = email}
    IN IF hits = {} THEN NoUser ELSE users[CHOOSE i \in hits : \A j \in hits : i <= j]

FindUserById(id) ==
    LET hits == {i \in 1 .. Len(users) : users[i].id = id}
    IN IF hits = {} THEN NoUser ELSE users[CHOOSE i \in hits : \A j \in hits : i <= j]

DocPos(document_id) ==
    LET hits == {i \in 1 .. Len(documents) : documents[i].id = document_id}
    IN IF hits = {} THEN 0 ELSE CHOOSE i \in hits : \A j \in hits : i <= j

FindDoc(document_id) == IF DocPos(document_id) = 0 THEN NoDoc ELSE documents[DocPos(document_id)]

\* get_current_user: the token must verify and its user id must resolve.
get_current_user(token) == IF token \in issued THEN FindUserById(token.user_id) ELSE NoUser

Tokens == issued \cup {BadToken}

AuditEntry(user_id, action, resource_type, resource_id) ==
    [user_id |-> user_id, action |-> action, resource_type |-> resource_type, resource_id |-> resource_id]

\* The outcomes of an audit insert that the environment env allows now.
AuditOutcomes(env) == IF audit_failures < env.max_failures THEN BOOLEAN ELSE {TRUE}

CountFailure(audit_ok) == IF audit_ok THEN audit_failures ELSE audit_failures + 1

\* How many entries of the audit log carry one of the action tags.
CountActions(tags) == Cardinality({i \in 1 .. Len(audit_logs) : audit_logs[i].action \in tags})

ReadActions == {"DOCUMENT_VIEWED", "DOCUMENT_DOWNLOADED", "SEARCH_PERFORMED"}

\* Mutant of log_audit: an upsert that keeps one entry, in place of an insert.
log_audit_upsert(logs, audit_ok, user_id, action, resource_type, resource_id) ==
    IF audit_ok THEN <<AuditEntry(user_id, action, resource_type, resource_id)>> ELSE logs

\* log_audit: one insert into audit_logs; the insert may raise (audit_ok = FALSE).
log_audit(logs, audit_ok, user_id, action, resource_type, resource_id) ==
    IF audit_ok THEN Append(logs, AuditEntry(user_id, action, resource_type, resource_id)) ELSE logs

\* The status a handler returns: its own result, or the 500 of an audit insert that raised.
AfterAudit(audit_ok) == IF audit_ok THEN "200" ELSE "500"

\* A request and its response: the handler, the HTTP status, the authenticated actor (0: none),
\* the document id and step index it named, the password, email or query it carried, and
\* whether its audit insert raised.  A request whose token is refused never reaches the
\* handler's body, and its inputs are not recorded.
Result(op, status, user_id, doc, arg, text, audit_failed) ==
    [op |-> op, status |-> status, user_id |-> user_id, doc |-> doc, arg |-> arg, text |-> text,
     audit_failed |-> audit_failed]

Step(assignee_role) == [assignee_role |-> assignee_role, status |-> "Pending", assignee_id |-> 0]

\* Mutant of seed_workflow: "SOP" is missing from the two-step list.
seed_workflow_no_sop(document_type) ==
    IF document_type \in {"CTD", "eCTD", "Regulatory"}
    THEN <<Step("QualityManager"), Step("RegulatoryAffairs"), Step("Admin")>>
    ELSE IF document_type \in {"Protocol"}
         THEN <<Step("QualityManager"), Step("Admin")>>
         ELSE <<>>

seed_workflow(document_type) ==
    IF document_type \in {"CTD", "eCTD", "Regulatory"}
    THEN <<Step("QualityManager"), Step("RegulatoryAffairs"), Step("Admin")>>
    ELSE IF document_type \in {"SOP", "Protocol"}
         THEN <<Step("QualityManager"), Step("Admin")>>
         ELSE <<>>

NewDocument(id, document_type, category, uploaded_by) ==
    [id |-> id, document_type |-> document_type, category |-> category, status |-> "Draft", uploaded_by |-> uploaded_by,
     approval_workflow |-> seed_workflow(document_type), signatures |-> <<>>]

\* ------------------------------------------------------------------ state
Init ==
    /\ users = <<>>
    /\ documents = <<>>
    /\ audit_logs = <<>>
    /\ issued = {}
    /\ last = Result("none", "none", 0, 0, 0, "none", FALSE)
    /\ audit_failures = 0
    /\ inflight = [s \in Slots |-> Idle]

\* ---------------------------------------------------------------- register
\* One register request; user_cap bounds the users collection.
register_with(email, password, salt, role, audit_ok, user_cap, env) ==
        IF FindUserByEmail(email) # NoUser
        THEN /\ last' = Result("register", "400", 0, 0, 0, email, FALSE)
             /\ UNCHANGED <<inflight, users, documents, audit_logs, issued, audit_failures>>
        ELSE LET id == Len(users) + 1
                 user == [id |-> id, email |-> email, role |-> role,
                          password |-> hash_password(password, salt), is_active |-> TRUE]
             IN /\ Len(users) < user_cap
                /\ Len(audit_logs) < env.audit_cap
                /\ users' = Append(users, user)
                /\ audit_logs' = log_audit(audit_logs, audit_ok, id, "USER_REGISTERED", "User", id)
                /\ audit_failures' = CountFailure(audit_ok)
                /\ last' = Result("register", AfterAudit(audit_ok), id, 0, 0, email, ~audit_ok)
                /\ UNCHANGED <<inflight, documents, issued>>

register_from(EmailSet, user_cap, env) ==
    \E email \in EmailSet, password \in Passwords, salt \in Salts, role \in Roles, audit_ok \in AuditOutcomes(env) :
        register_with(email, password, salt, role, audit_ok, user_cap, env)

register(env) == register_from(Emails, MaxUsers, env)

\* ------------------------------------------------------------------- login
login_with(email, password, audit_ok, env) ==
        LET user == FindUserByEmail(email)
        IN IF user = NoUser \/ ~verify_password(password, user.password)
           THEN /\ last' = Result("login", "401", 0, 0, 0, password, FALSE)
                /\ UNCHANGED <<inflight, users, documents, audit_logs, issued, audit_failures>>
           ELSE IF ~user.is_active
           THEN /\ last' = Result("login", "401", 0, 0, 0, password, FALSE)
                /\ UNCHANGED <<inflight, users, documents, audit_logs, issued, audit_failures>>
           ELSE /\ Len(audit_logs) < env.audit_cap
                /\ CountActions({"USER_LOGIN"}) < MaxLogins
                /\ audit_logs' = log_audit(audit_logs, audit_ok, user.id, "USER_LOGIN", "User", user.id)
                /\ audit_failures' = CountFailure(audit_ok)
                /\ issued' = IF audit_ok THEN issued \cup {create_jwt_token(user)} ELSE issued
                /\ last' = Result("login", AfterAudit(audit_ok), user.id, 0, 0, password, ~audit_ok)
                /\ UNCHANGED <<inflight, users, documents>>

login_from(EmailSet, env) ==
    \E email \in EmailSet, password \in Passwords, audit_ok \in AuditOutcomes(env) :
        login_with(email, password, audit_ok, env)

login(env) == login_from(Emails, env)

\* An administrator flips a user's active flag in the datastore (no handler does).
deactivate_user ==
    \E i \in 1 .. Len(users) :
        /\ users[i].is_active
        /\ users' = [users EXCEPT ![i].is_active = FALSE]
        /\ UNCHANGED <<inflight, documents, audit_logs, issued, last, audit_failures>>

\* --------------------------------------------------------- upload_document
upload_document(Types, Categories, env) ==
    \E token \in Tokens, document_type \in Types, category \in Categories, file_size \in FileSizes, audit_ok \in AuditOutcomes(env) :
        LET current_user == get_current_user(token)
        IN IF current_user = NoUser
           THEN /\ last' = Result("upload", "401", 0, 0, 0, "none", FALSE)
                /\ UNCHANGED <<inflight, users, documents, audit_logs, issued, audit_failures>>
           ELSE IF file_size > UPLOAD_LIMIT
           THEN /\ last' = Result("upload", "400", current_user.id, 0, 0, "none", FALSE)
                /\ UNCHANGED <<inflight, users, documents, audit_logs, issued, audit_failures>>
           ELSE LET id == Len(documents) + 1
                IN /\ Len(documents) < MaxDocs
                   /\ Len(audit_logs) < env.audit_cap
                   /\ documents' = Append(documents, NewDocument(id, document_type, category, current_user.id))
                   /\ audit_logs' = log_audit(audit_logs, audit_ok, current_user.id, "DOCUMENT_UPLOADED", "Document", id)
                   /\ audit_failures' = CountFailure(audit_ok)
                   /\ last' = Result("upload", AfterAudit(audit_ok), current_user.id, id, 0, "none", ~audit_ok)
                   /\ UNCHANGED <<inflight, users, issued>>

\* ------------------------------------------------------------ get_document
get_document(env) ==
    \E token \in Tokens, document_id \in DocIdInputs, audit_ok \in AuditOutcomes(env) :
        LET current_user == get_current_user(token)
        IN IF current_user = NoUser
           THEN /\ last' = Result("get", "401", 0, 0, 0, "none", FALSE)
                /\ UNCHANGED <<inflight, users, documents, audit_logs, issued, audit_failures>>
           ELSE IF FindDoc(document_id) = NoDoc
           THEN /\ last' = Result("get", "404", current_user.id, document_id, 0, "none", FALSE)
                /\ UNCHANGED <<inflight, users, documents, audit_logs, issued, audit_failures>>
           ELSE /\ Len(audit_logs) < env.audit_cap
                /\ CountActions(ReadActions) < MaxReads
                /\ audit_logs' = log_audit(audit_logs, audit_ok, current_user.id, "DOCUMENT_VIEWED", "Document", document_id)
                /\ audit_failures' = CountFailure(audit_ok)
                /\ last' = Result("get", AfterAudit(audit_ok), current_user.id, document_id, 0, "none", ~audit_ok)
                /\ UNCHANGED <<inflight, users, documents, issued>>

\* ------------------------------------------------------- download_document
\* file_exists: whether the stored file is still on disk (the file store is external).
download_document(env) ==
    \E token \in Tokens, document_id \in DocIdInputs, file_exists \in BOOLEAN, audit_ok \in AuditOutcomes(env) :
        LET current_user == get_current_user(token)
        IN IF current_user = NoUser
           THEN /\ last' = Result("download", "401", 0, 0, 0, "none", FALSE)
                /\ UNCHANGED <<inflight, users, documents, audit_logs, issued, audit_failures>>
           ELSE IF FindDoc(document_id) = NoDoc \/ ~file_exists
           THEN /\ last' = Result("download", "404", current_user.id, document_id, 0, "none", FALSE)
                /\ UNCHANGED <<inflight, users, documents, audit_logs, issued, audit_failures>>
           ELSE /\ Len(audit_logs) < env.audit_cap
                /\ CountActions(ReadActions) < MaxReads
                /\ audit_logs' = log_audit(audit_logs, audit_ok, current_user.id, "DOCUMENT_DOWNLOADED", "Document", document_id)
                /\ audit_failures' = CountFailure(audit_ok)
                /\ last' = Result("download", AfterAudit(audit_ok), current_user.id, document_id, 0, "none", ~audit_ok)
                /\ UNCHANGED <<inflight, users, documents, issued>>

\* --------------------------------------------------- approve_document_step
\* Python's list indexing: -n .. n-1 index a list of n elements, anything else raises IndexError.
PyIndexError(n, i) == i < -n \/ i >= n

PyPos(n, i) == IF i < 0 THEN n + i + 1 ELSE i + 1

InvalidWorkflowStep(workflow, step_index) == step_index >= Len(workflow)

\* Mutant of NotAuthorizedForStep: == typed for != in the Admin test.
NotAuthorizedForStep_eq(step, current_user) ==
    step.assignee_role # current_user.role /\ current_user.role = "Admin"

NotAuthorizedForStep(step, current_user) ==
    step.assignee_role # current_user.role /\ current_user.role # "Admin"

CompleteStep(workflow, step_index, current_user) ==
    [workflow EXCEPT ![PyPos(Len(workflow), step_index)] =
        [@ EXCEPT !.status = "Completed", !.assignee_id = current_user.id]]

\* Mutant of all_completed: any() for all().
all_completed_some(workflow) == \E i \in 1 .. Len(workflow) : workflow[i].status = "Completed"

\* Mutant of all_completed: only the first step is looked at.
all_completed_first(workflow) == Len(workflow) > 0 /\ workflow[1].status = "Completed"

all_completed(workflow) == \A i \in 1 .. Len(workflow) : workflow[i].status = "Completed"

\* Mutant of new_status: any() for all().
new_status_any(workflow) ==
    IF \E i \in 1 .. Len(workflow) : workflow[i].status = "Completed" THEN "Approved" ELSE "UnderReview"

new_status(workflow) == IF all_completed(workflow) THEN "Approved" ELSE "UnderReview"

\* Mutant of ApproveUpdate: a step that is Completed in the stored list stays Completed.
ApproveUpdate_merge(docs, document_id, workflow, status) ==
    [i \in 1 .. Len(docs) |->
        IF docs[i].id = document_id /\ \A j \in 1 .. (i - 1) : docs[j].id # document_id
        THEN [docs[i] EXCEPT !.approval_workflow =
                                 [k \in 1 .. Len(workflow) |->
                                     IF k <= Len(@) /\ @[k].status = "Completed" THEN @[k] ELSE workflow[k]],
                             !.status = status]
        ELSE docs[i]]

\* update_one({"id": document_id}, {"$set": ...}) of the approve handler.
ApproveUpdate(docs, document_id, workflow, status) ==
    [i \in 1 .. Len(docs) |->
        IF docs[i].id = document_id /\ \A j \in 1 .. (i - 1) : docs[j].id # document_id
        THEN [docs[i] EXCEPT !.approval_workflow = workflow, !.status = status]
        ELSE docs[i]]

approve_document_step(env) ==
    \E token \in Tokens, document_id \in DocIdInputs, step_index \in StepIndexes, audit_ok \in AuditOutcomes(env) :
        LET current_user == get_current_user(token)
            document == FindDoc(document_id)
            workflow == document.approval_workflow
        IN IF current_user = NoUser
           THEN /\ last' = Result("approve", "401", 0, 0, 0, "none", FALSE)
                /\ UNCHANGED <<inflight, users, documents, audit_logs, issued, audit_failures>>
           ELSE IF document = NoDoc
           THEN /\ last' = Result("approve", "404", current_user.id, document_id, step_index, "none", FALSE)
                /\ UNCHANGED <<inflight, users, documents, audit_logs, issued, audit_failures>>
           ELSE IF InvalidWorkflowStep(workflow, step_index)
           THEN /\ last' = Result("approve", "400", current_user.id, document_id, step_index, "none", FALSE)
                /\ UNCHANGED <<inflight, users, documents, audit_logs, issued, audit_failures>>
           ELSE IF PyIndexError(Len(workflow), step_index)
           THEN /\ last' = Result("approve", "500", current_user.id, document_id, step_index, "none", FALSE)
                /\ UNCHANGED <<inflight, users, documents, audit_logs, issued, audit_failures>>
           ELSE IF NotAuthorizedForStep(workflow[PyPos(Len(workflow), step_index)], current_user)
           THEN /\ last' = Result("approve", "403", current_user.id, document_id, step_index, "none", FALSE)
                /\ UNCHANGED <<inflight, users, documents, audit_logs, issued, audit_failures>>
           ELSE LET updated == CompleteStep(workflow, step_index, current_user)
                IN /\ Len(audit_logs) < env.audit_cap
                   /\ documents' = ApproveUpdate(documents, document_id, updated, new_status(updated))
                   /\ audit_logs' = log_audit(audit_logs, audit_ok, current_user.id, "DOCUMENT_APPROVED", "Document", document_id)
                   /\ audit_failures' = CountFailure(audit_ok)
                   /\ last' = Result("approve", AfterAudit(audit_ok), current_user.id, document_id, step_index, "none", ~audit_ok)
                   /\ UNCHANGED <<inflight, users, issued>>

\* --------------------------------------------------------- reject_document
\* Mutant of RejectUpdate: the rejection also sends every step back to Pending.
RejectUpdate_reset(docs, document_id) ==
    [i \in 1 .. Len(docs) |->
        IF docs[i].id = document_id
        THEN [docs[i] EXCEPT !.status = "Rejected",
                             !.approval_workflow = [k \in 1 .. Len(@) |-> [@[k] EXCEPT !.status = "Pending"]]]
        ELSE docs[i]]

RejectUpdate(docs, document_id) ==
    [i \in 1 .. Len(docs) |->
        IF docs[i].id = document_id /\ \A j \in 1 .. (i - 1) : docs[j].id # document_id
        THEN [docs[i] EXCEPT !.status = "Rejected"]
        ELSE docs[i]]

reject_document(env) ==
    \E token \in Tokens, document_id \in DocIdInputs, reason \in Reasons, audit_ok \in AuditOutcomes(env) :
        LET current_user == get_current_user(token)
        IN IF current_user = NoUser
           THEN /\ last' = Result("reject", "401", 0, 0, 0, "none", FALSE)
                /\ UNCHANGED <<inflight, users, documents, audit_logs, issued, audit_failures>>
           ELSE IF FindDoc(document_id) = NoDoc
           THEN /\ last' = Result("reject", "404", current_user.id, document_id, 0, "none", FALSE)
                /\ UNCHANGED <<inflight, users, documents, audit_logs, issued, audit_failures>>
           ELSE /\ Len(audit_logs) < env.audit_cap
                /\ documents' = RejectUpdate(documents, document_id)
                /\ audit_logs' = log_audit(audit_logs, audit_ok, current_user.id, "DOCUMENT_REJECTED", "Document", document_id)
                /\ audit_failures' = CountFailure(audit_ok)
                /\ last' = Result("reject", AfterAudit(audit_ok), current_user.id, document_id, 0, "none", ~audit_ok)
                /\ UNCHANGED <<inflight, users, issued>>

\* ----------------------------------------------------------- sign_document
ElectronicSignature(current_user, reason) ==
    [signer_id |-> current_user.id, signer_role |-> current_user.role, reason |-> reason]

\* Mutant of AppendSignature: the stored list is read under a wrong key, so it starts empty.
AppendSignature_fresh(signatures, signature) == <<signature>>

AppendSignature(signatures, signature) == Append(signatures, signature)

SignUpdate(docs, document_id, signatures) ==
    [i \in 1 .. Len(docs) |->
        IF docs[i].id = document_id /\ \A j \in 1 .. (i - 1) : docs[j].id # document_id
        THEN [docs[i] EXCEPT !.signatures = signatures]
        ELSE docs[i]]

sign_document(env) ==
    \E token \in Tokens, document_id \in DocIdInputs, reason \in Reasons, password \in Passwords, audit_ok \in AuditOutcomes(env) :
        LET current_user == get_current_user(token)
            user == FindUserById(current_user.id)
            document == FindDoc(document_id)
        IN IF current_user = NoUser
           THEN /\ last' = Result("sign", "401", 0, 0, 0, "none", FALSE)
                /\ UNCHANGED <<inflight, users, documents, audit_logs, issued, audit_failures>>
           ELSE IF ~verify_password(password, user.password)
           THEN /\ last' = Result("sign", "401", current_user.id, document_id, 0, password, FALSE)
                /\ UNCHANGED <<inflight, users, documents, audit_logs, issued, audit_failures>>
           ELSE IF document = NoDoc
           THEN /\ last' = Result("sign", "404", current_user.id, document_id, 0, password, FALSE)
                /\ UNCHANGED <<inflight, users, documents, audit_logs, issued, audit_failures>>
           ELSE /\ Len(audit_logs) < env.audit_cap
                /\ Len(document.signatures) < MaxSigs
                /\ documents' = SignUpdate(documents, document_id,
                                           AppendSignature(document.signatures, ElectronicSignature(current_user, reason)))
                /\ audit_logs' = log_audit(audit_logs, audit_ok, current_user.id, "DOCUMENT_SIGNED", "Document", document_id)
                /\ audit_failures' = CountFailure(audit_ok)
                /\ last' = Result("sign", AfterAudit(audit_ok), current_user.id, document_id, 0, password, ~audit_ok)
                /\ UNCHANGED <<inflight, users, issued>>

\* -------------------------------------------------------- search_documents
search_documents(env) ==
    \E token \in Tokens, q \in Queries, audit_ok \in AuditOutcomes(env) :
        LET current_user == get_current_user(token)
        IN IF current_user = NoUser
           THEN /\ last' = Result("search", "401", 0, 0, 0, "none", FALSE)
                /\ UNCHANGED <<inflight, users, documents, audit_logs, issued, audit_failures>>
           ELSE /\ Len(audit_logs) < env.audit_cap
                /\ CountActions(ReadActions) < MaxReads
                /\ audit_logs' = log_audit(audit_logs, audit_ok, current_user.id, "SEARCH_PERFORMED", "Search", q)
                /\ audit_failures' = CountFailure(audit_ok)
                /\ last' = Result("search", AfterAudit(audit_ok), current_user.id, 0, 0, q, ~audit_ok)
                /\ UNCHANGED <<inflight, users, documents, issued>>

\* ------------------------------ get_documents, get_dashboard_data, get_audit_logs
\* Reads that write nothing, not even an audit entry.
get_documents ==
    \E token \in Tokens :
        /\ last' = Result("list", IF get_current_user(token) = NoUser THEN "401" ELSE "200",
                          get_current_user(token).id, 0, 0, "none", FALSE)
        /\ UNCHANGED <<inflight, users, documents, audit_logs, issued, audit_failures>>

get_dashboard_data ==
    \E token \in Tokens :
        /\ last' = Result("dashboard", IF get_current_user(token) = NoUser THEN "401" ELSE "200",
                          get_current_user(token).id, 0, 0, "none", FALSE)
        /\ UNCHANGED <<inflight, users, documents, audit_logs, issued, audit_failures>>

get_audit_logs ==
    \E token \in Tokens :
        LET current_user == get_current_user(token)
        IN /\ last' = Result("audit",
                             IF current_user = NoUser THEN "401"
                             ELSE IF current_user.role \notin {"Admin", "QualityManager"} THEN "403" ELSE "200",
                             current_user.id, 0, 0, "none", FALSE)
           /\ UNCHANGED <<inflight, users, documents, audit_logs, issued, audit_failures>>

\* ----------------------------------------------------------- specifications
Reliable == [audit_cap |-> MaxAudit, max_failures |-> 0]

Faulty == [audit_cap |-> MaxAuditFaulty, max_failures |-> MaxAuditFailures]

Next ==
    \/ register(Reliable)
    \/ login(Reliable)
    \/ upload_document(TemplateTypes, OneCategory, Reliable)
    \/ get_document(Reliable)
    \/ download_document(Reliable)
    \/ approve_document_step(Reliable)
    \/ reject_document(Reliable)
    \/ sign_document(Reliable)
    \/ search_documents(Reliable)
    \/ get_documents
    \/ get_dashboard_data
    \/ get_audit_logs

\* Requests handled one at a time, every audit insert succeeding.
Spec == Init /\ [][Next]_vars

\* The same handlers when an insert into audit_logs may raise.
NextAuditFailure ==
    \/ register(Faulty)
    \/ login(Faulty)
    \/ upload_document(TemplateTypes, OneCategory, Faulty)
    \/ get_document(Faulty)
    \/ download_document(Faulty)
    \/ approve_document_step(Faulty)
    \/ reject_document(Faulty)
    \/ sign_document(Faulty)
    \/ search_documents(Faulty)
    \/ get_documents
    \/ get_dashboard_data
    \/ get_audit_logs

SpecAuditFailure == Init /\ [][NextAuditFailure]_vars

\* Uploads of every document type.
NextUpload ==
    \/ register(Reliable)
    \/ login(Reliable)
    \/ upload_document(DocTypes, SomeCategories, Reliable)
    \/ get_document(Reliable)

SpecUpload == Init /\ [][NextUpload]_vars

\* ------------------------------------------------- register, call by call
\* A request handled call by call occupies a slot: each step is one datastore call together
\* with the local work up to the next call, and the steps of different slots interleave.
Respond(s, status) == [inflight EXCEPT ![s].pc = "done", ![s].status = status]

\* find_one by email, then the 400 or the User object.
register_find(s) ==
    \E email \in Emails, password \in Passwords, salt \in Salts, role \in Roles :
        /\ inflight[s].pc = "idle"
        /\ inflight' = [inflight EXCEPT ![s] =
               IF FindUserByEmail(email) # NoUser
               THEN [Idle EXCEPT !.op = "register", !.pc = "done", !.status = "400", !.text = email]
               ELSE [Idle EXCEPT !.op = "register", !.pc = "insert", !.text = email,
                                 !.user = [id |-> 0, email |-> email, role |-> role,
                                           password |-> hash_password(password, salt), is_active |-> TRUE]]]
        /\ UNCHANGED <<users, documents, audit_logs, issued, last, audit_failures>>

\* insert_one of the User object; its uuid is an id no stored user has.
register_insert(s) ==
    /\ inflight[s].op = "register" /\ inflight[s].pc = "insert"
    /\ LET id == Len(users) + 1
       IN /\ users' = Append(users, [inflight[s].user EXCEPT !.id = id])
          /\ inflight' = [inflight EXCEPT ![s].pc = "audit", ![s].user_id = id]
    /\ UNCHANGED <<documents, audit_logs, issued, last, audit_failures>>

\* log_audit and the response.
register_audit(s, env) ==
    \E audit_ok \in AuditOutcomes(env) :
        /\ inflight[s].op = "register" /\ inflight[s].pc = "audit"
        /\ Len(audit_logs) < env.audit_cap
        /\ audit_logs' = log_audit(audit_logs, audit_ok, inflight[s].user_id, "USER_REGISTERED", "User", inflight[s].user_id)
        /\ audit_failures' = CountFailure(audit_ok)
        /\ inflight' = Respond(s, AfterAudit(audit_ok))
        /\ UNCHANGED <<users, documents, issued, last>>

\* MaxRequests register requests, their datastore calls interleaved.
NextRegisterRace ==
    \E s \in Slots :
        \/ register_find(s)
        \/ register_insert(s)
        \/ register_audit(s, Reliable)

SpecRegisterRace == Init /\ [][NextRegisterRace]_vars

\* ------------------------------- approve, reject and sign, call by call
\* A response that a handler raises before it has written anything.
Refuse(s, op, status) == [inflight EXCEPT ![s] = [Idle EXCEPT !.op = op, !.pc = "done", !.status = status]]

\* current_user as the handler holds it once get_current_user has returned.
Actor(s) == [id |-> inflight[s].user_id, role |-> inflight[s].role]

\* log_audit and the response of a handler that has written.
audit_and_return(s, op, action, env) ==
    \E audit_ok \in AuditOutcomes(env) :
        /\ inflight[s].op = op /\ inflight[s].pc = "audit"
        /\ Len(audit_logs) < env.audit_cap
        /\ audit_logs' = log_audit(audit_logs, audit_ok, inflight[s].user_id, action, "Document", inflight[s].doc)
        /\ audit_failures' = CountFailure(audit_ok)
        /\ inflight' = Respond(s, AfterAudit(audit_ok))
        /\ UNCHANGED <<users, documents, issued, last>>

\* Depends(get_current_user) of approve_document_step.
approve_auth(s) ==
    \E token \in Tokens, document_id \in DocIdInputs, step_index \in RaceStepIndexes :
        /\ inflight[s].pc = "idle"
        /\ inflight' =
               IF get_current_user(token) = NoUser
               THEN Refuse(s, "approve", "401")
               ELSE [inflight EXCEPT ![s] =
                        [Idle EXCEPT !.op = "approve", !.pc = "find", !.user_id = get_current_user(token).id,
                                     !.role = get_current_user(token).role, !.doc = document_id, !.arg = step_index]]
        /\ UNCHANGED <<users, documents, audit_logs, issued, last, audit_failures>>

\* find_one of the document and the checks on the list it carries.
approve_find(s) ==
    /\ inflight[s].op = "approve" /\ inflight[s].pc = "find"
    /\ LET document == FindDoc(inflight[s].doc)
           workflow == document.approval_workflow
           step_index == inflight[s].arg
       IN inflight' =
              IF document = NoDoc THEN Refuse(s, "approve", "404")
              ELSE IF InvalidWorkflowStep(workflow, step_index) THEN Refuse(s, "approve", "400")
              ELSE IF PyIndexError(Len(workflow), step_index) THEN Refuse(s, "approve", "500")
              ELSE IF NotAuthorizedForStep(workflow[PyPos(Len(workflow), step_index)], Actor(s))
              THEN Refuse(s, "approve", "403")
              ELSE [inflight EXCEPT ![s].pc = "update", ![s].read = workflow]
    /\ UNCHANGED <<users, documents, audit_logs, issued, last, audit_failures>>

\* The step marked on the list that was read, and update_one with that list and its status.
approve_update(s) ==
    /\ inflight[s].op = "approve" /\ inflight[s].pc = "update"
    /\ LET updated == CompleteStep(inflight[s].read, inflight[s].arg, Actor(s))
       IN documents' = ApproveUpdate(documents, inflight[s].doc, updated, new_status(updated))
    /\ inflight' = [inflight EXCEPT ![s].pc = "audit"]
    /\ UNCHANGED <<users, audit_logs, issued, last, audit_failures>>

approve_audit(s, env) == audit_and_return(s, "approve", "DOCUMENT_APPROVED", env)

\* Depends(get_current_user) of reject_document.
reject_auth(s) ==
    \E token \in Tokens, document_id \in DocIdInputs, reason \in Reasons :
        /\ inflight[s].pc = "idle"
        /\ inflight' =
               IF get_current_user(token) = NoUser
               THEN Refuse(s, "reject", "401")
               ELSE [inflight EXCEPT ![s] =
                        [Idle EXCEPT !.op = "reject", !.pc = "find", !.user_id = get_current_user(token).id,
                                     !.role = get_current_user(token).role, !.doc = document_id, !.text = reason]]
        /\ UNCHANGED <<users, documents, audit_logs, issued, last, audit_failures>>

reject_find(s) ==
    /\ inflight[s].op = "reject" /\ inflight[s].pc = "find"
    /\ inflight' = IF FindDoc(inflight[s].doc) = NoDoc
                   THEN Refuse(s, "reject", "404")
                   ELSE [inflight EXCEPT ![s].pc = "update"]
    /\ UNCHANGED <<users, documents, audit_logs, issued, last, audit_failures>>

reject_update(s) ==
    /\ inflight[s].op = "reject" /\ inflight[s].pc = "update"
    /\ documents' = RejectUpdate(documents, inflight[s].doc)
    /\ inflight' = [inflight EXCEPT ![s].pc = "audit"]
    /\ UNCHANGED <<users, audit_logs, issued, last, audit_failures>>

reject_audit(s, env) == audit_and_return(s, "reject", "DOCUMENT_REJECTED", env)

\* Depends(get_current_user) of sign_document.
sign_auth(s) ==
    \E token \in Tokens, document_id \in DocIdInputs, reason \in Reasons, password \in Passwords :
        /\ inflight[s].pc = "idle"
        /\ inflight' =
               IF get_current_user(token) = NoUser
               THEN Refuse(s, "sign", "401")
               ELSE [inflight EXCEPT ![s] =
                        [Idle EXCEPT !.op = "sign", !.pc = "verify", !.user_id = get_current_user(token).id,
                                     !.role = get_current_user(token).role, !.doc = document_id,
                                     !.text = reason, !.password = password]]
        /\ UNCHANGED <<users, documents, audit_logs, issued, last, audit_failures>>

\* find_one of the user and the password check; the password is not used after it.
sign_verify(s) ==
    /\ inflight[s].op = "sign" /\ inflight[s].pc = "verify"
    /\ inflight' = IF ~verify_password(inflight[s].password, FindUserById(inflight[s].user_id).password)
                   THEN Refuse(s, "sign", "401")
                   ELSE [inflight EXCEPT ![s].pc = "find", ![s].password = "none"]
    /\ UNCHANGED <<users, documents, audit_logs, issued, last, audit_failures>>

\* find_one of the document; the handler keeps the signatures it carries.
sign_find(s) ==
    /\ inflight[s].op = "sign" /\ inflight[s].pc = "find"
    /\ inflight' = IF FindDoc(inflight[s].doc) = NoDoc
                   THEN Refuse(s, "sign", "404")
                   ELSE [inflight EXCEPT ![s].pc = "update", ![s].read = FindDoc(inflight[s].doc).signatures]
    /\ UNCHANGED <<users, documents, audit_logs, issued, last, audit_failures>>

\* The signature appended to the list that was read, and update_one with that list.
sign_update(s) ==
    /\ inflight[s].op = "sign" /\ inflight[s].pc = "update"
    /\ documents' = SignUpdate(documents, inflight[s].doc,
                               AppendSignature(inflight[s].read, ElectronicSignature(Actor(s), inflight[s].text)))
    /\ inflight' = [inflight EXCEPT ![s].pc = "audit"]
    /\ UNCHANGED <<users, audit_logs, issued, last, audit_failures>>

sign_audit(s, env) == audit_and_return(s, "sign", "DOCUMENT_SIGNED", env)

\* One user, one login, one upload, and MaxRequests approve, reject and sign requests whose
\* datastore calls interleave with each other and with the upload.
NextRace ==
    \/ register_from(RaceEmails, MaxUsers, Reliable)
    \/ login_from(RaceEmails, Reliable)
    \/ upload_document(RaceTypes, OneCategory, Reliable)
    \/ \E s \in Slots :
        \/ approve_auth(s)
        \/ approve_find(s)
        \/ approve_update(s)
        \/ approve_audit(s, Reliable)
        \/ reject_auth(s)
        \/ reject_find(s)
        \/ reject_update(s)
        \/ reject_audit(s, Reliable)
        \/ sign_auth(s)
        \/ sign_verify(s)
        \/ sign_find(s)
        \/ sign_update(s)
        \/ sign_audit(s, Reliable)

SpecRace == Init /\ [][NextRace]_vars

\* Accounts: registrations and logins, one at a time, with up to MaxAuthUsers users.
NextAuth ==
    \/ register_from(AuthEmails, MaxAuthUsers, Reliable)
    \/ login_from(AuthEmails, Reliable)
    \/ deactivate_user

SpecAuth == Init /\ [][NextAuth]_vars

\* ------------------------------------------------------------------ claims
\* What the claims say of a document, written out here and not taken from the handlers.
EveryStepCompleted(d) ==
    \A i \in 1 .. Len(d.approval_workflow) : d.approval_workflow[i].status = "Completed"

AssigneeRoles(d) == [i \in 1 .. Len(d.approval_workflow) |-> d.approval_workflow[i].assignee_role]

\* The request of the step just taken named an existing document and came with a valid token.
OnStoredDocument(op) == last'.op = op /\ last'.user_id # 0 /\ DocPos(last'.doc) # 0

OtherDocumentsUnchanged(p) ==
    /\ Len(documents') = Len(documents)
    /\ \A i \in 1 .. Len(documents) : i # p => documents'[i] = documents[i]

\* C1: after every successful approve_step the stored status of that document is Approved
\* if every stored step is Completed and UnderReview otherwise (so never Draft).
C1_ApproveRecomputesStatus ==
    (last.op = "approve" /\ last.status = "200") =>
        LET d == FindDoc(last.doc)
        IN /\ d # NoDoc
           /\ EveryStepCompleted(d) => d.status = "Approved"
           /\ ~EveryStepCompleted(d) => d.status = "UnderReview"
           /\ d.status # "Draft"

\* A two-step document whose second approval has just made it Approved.
C1_Witness ==
    /\ last.op = "approve" /\ last.status = "200"
    /\ Len(FindDoc(last.doc).approval_workflow) = 2
    /\ EveryStepCompleted(FindDoc(last.doc))
    /\ FindDoc(last.doc).status = "Approved"

\* C2: approve_step on an existing step succeeds only for the step's assignee role or
\* Admin; any other role gets 403 and the documents and the audit log stay as they were.
C2_ApproveRoleCheck ==
    [][(OnStoredDocument("approve")
            /\ last'.arg \in 0 .. (Len(FindDoc(last'.doc).approval_workflow) - 1))
        => LET step == FindDoc(last'.doc).approval_workflow[last'.arg + 1]
               role == FindUserById(last'.user_id).role
           IN IF role = step.assignee_role \/ role = "Admin"
              THEN last'.status = "200"
              ELSE /\ last'.status = "403"
                   /\ documents' = documents
                   /\ audit_logs' = audit_logs]_vars

\* An approve_step that was refused with 403.
C2_Witness == last.op = "approve" /\ last.status = "403" /\ FindDoc(last.doc) # NoDoc

\* C3: approve_step with a step_index outside 0 .. len(workflow)-1 fails with the
\* out-of-range error (400) and changes neither the documents nor the audit log.
C3_OutOfRangeIndexRejected ==
    [][(OnStoredDocument("approve")
            /\ last'.arg \notin 0 .. (Len(FindDoc(last'.doc).approval_workflow) - 1))
        => /\ last'.status = "400"
           /\ documents' = documents
           /\ audit_logs' = audit_logs]_vars

\* C4: reject on a stored document, by any actor and in any status, sets the status to
\* Rejected and keeps the workflow steps and the signatures; on a missing document it
\* answers 404 and changes nothing.
C4_RejectFrame ==
    [][(last'.op = "reject" /\ last'.user_id # 0)
        => LET p == DocPos(last'.doc)
           IN IF p # 0
              THEN /\ last'.status = "200"
                   /\ documents'[p].status = "Rejected"
                   /\ documents'[p].approval_workflow = documents[p].approval_workflow
                   /\ documents'[p].signatures = documents[p].signatures
                   /\ OtherDocumentsUnchanged(p)
              ELSE /\ last'.status = "404"
                   /\ UNCHANGED <<users, documents, audit_logs>>]_vars

\* A reject that has just hit a document whose steps were all Completed.
C4_Witness ==
    /\ last.op = "reject" /\ last.status = "200"
    /\ Len(FindDoc(last.doc).approval_workflow) > 0
    /\ EveryStepCompleted(FindDoc(last.doc))
    /\ FindDoc(last.doc).status = "Rejected"

\* C5: a successful sign makes the signature list one entry longer, the new entry last and
\* the earlier ones as they were, and keeps status and workflow; a sign with a password
\* that does not match the actor's stored hash answers 401 and changes nothing.
C5_SignFrame ==
    [][(last'.op = "sign" /\ last'.user_id # 0)
        => LET p == DocPos(last'.doc)
               matches == verify_password(last'.text, FindUserById(last'.user_id).password)
           IN /\ ~matches => (last'.status = "401" /\ UNCHANGED <<users, documents, audit_logs>>)
              /\ last'.status = "200" =>
                    /\ matches /\ p # 0
                    /\ Len(documents'[p].signatures) = Len(documents[p].signatures) + 1
                    /\ SubSeq(documents'[p].signatures, 1, Len(documents[p].signatures)) = documents[p].signatures
                    /\ documents'[p].signatures[Len(documents'[p].signatures)].signer_id = last'.user_id
                    /\ documents'[p].status = documents[p].status
                    /\ documents'[p].approval_workflow = documents[p].approval_workflow
                    /\ OtherDocumentsUnchanged(p)]_vars

\* A second signature has just been appended to a document.
C5_Witness ==
    /\ last.op = "sign" /\ last.status = "200"
    /\ Len(FindDoc(last.doc).signatures) = 2

\* C6: a newly uploaded document is Draft, unsigned, and carries the workflow of its type:
\* three Pending steps for CTD, eCTD, Regulatory, two for SOP, Protocol, none otherwise.
C6_UploadSeedsWorkflow ==
    (last.op = "upload" /\ last.status = "200") =>
        LET d == FindDoc(last.doc)
        IN /\ d # NoDoc
           /\ d.status = "Draft"
           /\ d.signatures = <<>>
           /\ \A i \in 1 .. Len(d.approval_workflow) : d.approval_workflow[i].status = "Pending"
           /\ d.document_type \in {"CTD", "eCTD", "Regulatory"}
                 => AssigneeRoles(d) = <<"QualityManager", "RegulatoryAffairs", "Admin">>
           /\ d.document_type \in {"SOP", "Protocol"} => AssigneeRoles(d) = <<"QualityManager", "Admin">>
           /\ d.document_type \notin {"CTD", "eCTD", "Regulatory", "SOP", "Protocol"} => d.approval_workflow = <<>>

\* An SOP has just been uploaded.
C6_Witness ==
    /\ last.op = "upload" /\ last.status = "200"
    /\ FindDoc(last.doc).document_type = "SOP"
    /\ Len(FindDoc(last.doc).approval_workflow) = 2

\* C7 as claimed: in every reachable state a document is Approved if and only if every
\* step of its workflow is Completed.
C7_ApprovedIffAllCompleted ==
    \A i \in 1 .. Len(documents) : (documents[i].status = "Approved") <=> EveryStepCompleted(documents[i])

\* C7 as amended: a document is Approved only if its workflow is non-empty and every step
\* is Completed; and a document with a non-empty workflow whose steps are all Completed
\* is Approved or Rejected.
C7_ApprovedOnlyIfAllCompleted ==
    \A i \in 1 .. Len(documents) :
        LET d == documents[i]
        IN /\ d.status = "Approved" => (Len(d.approval_workflow) > 0 /\ EveryStepCompleted(d))
           /\ (Len(d.approval_workflow) > 0 /\ EveryStepCompleted(d)) => d.status \in {"Approved", "Rejected"}

\* A three-step document that has reached Approved.
C7_Witness ==
    \E i \in 1 .. Len(documents) :
        /\ documents[i].status = "Approved"
        /\ Len(documents[i].approval_workflow) = 3

\* C8: once a document is Rejected no later call moves its status off Rejected.
C8_RejectedStaysRejected ==
    [][\A i \in 1 .. Len(documents) :
            documents[i].status = "Rejected" => documents'[i].status = "Rejected"]_vars

\* C9: every successful audited call appends exactly one entry, carrying the actor id, the
\* call's action tag and the resource id; every other call leaves the log as it was.
AuditedTag(op) ==
    CASE op = "register" -> "USER_REGISTERED"
      [] op = "login" -> "USER_LOGIN"
      [] op = "upload" -> "DOCUMENT_UPLOADED"
      [] op = "get" -> "DOCUMENT_VIEWED"
      [] op = "download" -> "DOCUMENT_DOWNLOADED"
      [] op = "approve" -> "DOCUMENT_APPROVED"
      [] op = "reject" -> "DOCUMENT_REJECTED"
      [] op = "sign" -> "DOCUMENT_SIGNED"
      [] op = "search" -> "SEARCH_PERFORMED"
      [] OTHER -> "none"

C9_AuditAppendOnly ==
    [][LET n == Len(audit_logs)
       IN IF last'.status = "200" /\ AuditedTag(last'.op) # "none"
          THEN /\ Len(audit_logs') = n + 1
               /\ SubSeq(audit_logs', 1, n) = audit_logs
               /\ audit_logs'[n + 1].user_id = last'.user_id
               /\ audit_logs'[n + 1].action = AuditedTag(last'.op)
               /\ IF last'.op = "search" THEN audit_logs'[n + 1].resource_id = last'.text
                  ELSE IF last'.op \in {"register", "login"}
                       THEN audit_logs'[n + 1].resource_id = last'.user_id
                       ELSE audit_logs'[n + 1].resource_id = last'.doc
          ELSE audit_logs' = audit_logs]_vars

\* A successful approve_step has just been logged behind three earlier entries.
C9_Witness ==
    /\ last.op = "approve" /\ last.status = "200"
    /\ Len(audit_logs) = 4
    /\ audit_logs[4].action = "DOCUMENT_APPROVED"

\* C10: a request whose audit insert raised still answers with its success result.
C10_AuditFailureTolerated == last.audit_failed => last.status = "200"
\* How many stored users carry exactly this email.
RecordsWithEmail(us, email) == Cardinality({i \in 1 .. Len(us) : us[i].email = email})

\* C11: a register whose email equals a stored user's email, case and all, answers with the
\* duplicate-email error (400), stores no user and logs nothing, so one record carries that
\* email; a register with a fresh email stores exactly one record.
C11_DuplicateEmailRefused ==
    [][\A email \in AuthEmails, password \in Passwords, salt \in Salts, role \in Roles :
        register_with(email, password, salt, role, TRUE, MaxAuthUsers, Reliable) =>
            IF RecordsWithEmail(users, email) > 0
            THEN /\ last'.status = "400"
                 /\ users' = users
                 /\ audit_logs' = audit_logs
                 /\ RecordsWithEmail(users', email) = 1
            ELSE /\ last'.status = "200"
                 /\ Len(users') = Len(users) + 1
                 /\ SubSeq(users', 1, Len(users)) = users
                 /\ users'[Len(users')].email = email
                 /\ RecordsWithEmail(users', email) = 1]_vars

\* A second register with a stored email has just been refused, a user of another email
\* being stored too.
C11_Witness ==
    /\ last.op = "register" /\ last.status = "400"
    /\ Len(users) = 2
    /\ RecordsWithEmail(users, last.text) = 1

\* C12: a login with the email and password of a stored, active user answers 200 with a
\* token that carries the id register returned for that user; any other login answers 401,
\* issues no token and logs nothing.
C12_LoginAfterRegister ==
    [][/\ \A email \in AuthEmails, password \in Passwords, salt \in Salts, role \in Roles :
            (register_with(email, password, salt, role, TRUE, MaxAuthUsers, Reliable) /\ last'.status = "200") =>
                /\ users'[Len(users')].id = last'.user_id
                /\ users'[Len(users')].email = email
                /\ users'[Len(users')].password[2] = password
       /\ \A email \in AuthEmails, password \in Passwords :
            login_with(email, password, TRUE, Reliable) =>
                LET known == {i \in 1 .. Len(users) : users[i].email = email}
                    good == {i \in known : users[i].password[2] = password /\ users[i].is_active}
                IN IF good # {}
                   THEN /\ last'.status = "200"
                        /\ \E i \in good :
                              /\ last'.user_id = users[i].id
                              /\ [user_id |-> users[i].id, email |-> email, role |-> users[i].role] \in issued'
                   ELSE /\ last'.status = "401"
                        /\ issued' = issued
                        /\ audit_logs' = audit_logs]_vars

\* The second registered user has just logged in and holds a token with that id.
C12_Witness ==
    /\ last.op = "login" /\ last.status = "200" /\ last.user_id = 2
    /\ \E t \in issued : t.user_id = 2 /\ t.email = users[2].email

\* A login with the right password of a deactivated user has just been refused.
C12_InactiveReached ==
    /\ last.op = "login" /\ last.status = "401"
    /\ \E i \in 1 .. Len(users) : ~users[i].is_active /\ users[i].password[2] = last.text
\* C13: every stored document's document_type is a key of DOCUMENT_CATEGORIES and its
\* category is one the table lists for that type.
C13_CategoryInTable ==
    \A i \in 1 .. Len(documents) :
        /\ documents[i].document_type \in DOMAIN DOCUMENT_CATEGORIES
        /\ documents[i].category \in DOCUMENT_CATEGORIES[documents[i].document_type]
\* The slots whose request, of this handler, has been answered with this status.
Answered(op, status) ==
    {s \in Slots : inflight[s].op = op /\ inflight[s].pc = "done" /\ inflight[s].status = status}

\* C16: however the calls of concurrent register requests interleave, at most one stored
\* user carries a given email and at most one register with that email has answered 200.
C16_EmailUniqueUnderRace ==
    \A email \in Emails :
        /\ RecordsWithEmail(users, email) <= 1
        /\ Cardinality({s \in Answered("register", "200") : inflight[s].text = email}) <= 1
\* The position in its list of the step that the approve request in slot s names.
StepOf(s) == PyPos(Len(inflight[s].read), inflight[s].arg)

\* The approve requests in slots s and t name two steps of one document and have both read
\* the same step list, in which both steps are Pending.
Raced(s, t) ==
    /\ s # t
    /\ inflight[s].op = "approve" /\ inflight[t].op = "approve"
    /\ inflight[s].pc \in {"update", "audit", "done"} /\ inflight[t].pc \in {"update", "audit", "done"}
    /\ inflight[s].doc = inflight[t].doc
    /\ inflight[s].read = inflight[t].read
    /\ StepOf(s) # StepOf(t)
    /\ inflight[s].read[StepOf(s)].status = "Pending"
    /\ inflight[s].read[StepOf(t)].status = "Pending"

ApprovedEntries(logs, document_id) ==
    {i \in 1 .. Len(logs) : logs[i].action = "DOCUMENT_APPROVED" /\ logs[i].resource_id = document_id}

StoredDoc(docs, document_id) ==
    docs[CHOOSE i \in 1 .. Len(docs) : docs[i].id = document_id]

\* C14: when two approve requests on two steps of a document have read the same step list,
\* the one that writes second leaves its own step Completed, the other's step Pending and
\* the status UnderReview; and when both have returned, both have answered 200 and both
\* have logged DOCUMENT_APPROVED.
C14_LostApproval ==
    /\ [][\A s, t \in Slots :
            (Raced(s, t) /\ inflight[t].pc \in {"audit", "done"} /\ approve_update(s)) =>
                LET stored == StoredDoc(documents', inflight[s].doc)
                IN /\ stored.approval_workflow[StepOf(s)].status = "Completed"
                   /\ stored.approval_workflow[StepOf(t)].status = "Pending"
                   /\ stored.status = "UnderReview"]_vars
    /\ [](\A s, t \in Slots :
            (Raced(s, t) /\ inflight[s].pc = "done" /\ inflight[t].pc = "done") =>
                /\ inflight[s].status = "200" /\ inflight[t].status = "200"
                /\ Cardinality(ApprovedEntries(audit_logs, inflight[s].doc)) >= 2)

\* Two approve requests that read the same list have both returned 200 and both are in the
\* audit log; the first step is Pending in the stored list although its approval succeeded.
C14_Witness ==
    \E s, t \in Slots :
        /\ Raced(s, t)
        /\ inflight[s].pc = "done" /\ inflight[s].status = "200"
        /\ inflight[t].pc = "done" /\ inflight[t].status = "200"
        /\ StepOf(t) = 1
        /\ StoredDoc(documents, inflight[s].doc).approval_workflow[1].status = "Pending"
        /\ StoredDoc(documents, inflight[s].doc).approval_workflow[StepOf(s)].status = "Completed"
        /\ StoredDoc(documents, inflight[s].doc).status = "UnderReview"
        /\ Cardinality(ApprovedEntries(audit_logs, inflight[s].doc)) = 2

IsPrefix(a, b) == Len(a) <= Len(b) /\ SubSeq(b, 1, Len(a)) = a

\* The places of the stored signatures: document by document, position by position.
StoredSignatures ==
    UNION {{<<i, k>> : k \in 1 .. Len(documents[i].signatures)} : i \in 1 .. Len(documents)}

\* C15: however the calls of concurrent sign requests interleave, a stored signature keeps
\* its place in every later state, and once every sign request that has written has also
\* returned, the stored signatures are as many as the sign requests that answered 200.
C15_SignaturesAppendOnly ==
    /\ [][\A i \in 1 .. Len(documents) : IsPrefix(documents[i].signatures, documents'[i].signatures)]_vars
    /\ []((\A s \in Slots : ~(inflight[s].op = "sign" /\ inflight[s].pc = "audit")) =>
            Cardinality(StoredSignatures) = Cardinality(Answered("sign", "200")))

\* C17: however the calls of concurrent upload, approve, reject and sign requests interleave,
\* a stored document whose status is Approved has at least one step and no step that is not
\* Completed.
C17_ApprovedNeverWithPendingStep ==
    \A i \in 1 .. Len(documents) :
        documents[i].status = "Approved" =>
            /\ Len(documents[i].approval_workflow) > 0
            /\ ~\E k \in 1 .. Len(documents[i].approval_workflow) :
                   documents[i].approval_workflow[k].status # "Completed"

\* A document is Approved while an approve request that wrote UnderReview before has not
\* returned yet.
C17_Witness ==
    \E s \in Slots :
        /\ inflight[s].op = "approve" /\ inflight[s].pc = "audit"
        /\ ~all_completed(CompleteStep(inflight[s].read, inflight[s].arg, Actor(s)))
        /\ StoredDoc(documents, inflight[s].doc).status = "Approved"
====
